---------------------------- MODULE Spec2Model ----------------------------
(***************************************************************************)
(* The 54autoworks proxy: an express listener that relays cart, session    *)
(* and product calls to the WooCommerce Store API and serves exchange      *)
(* rates.  Two versions of the program are in the repository:              *)
(* src/server.js and src/unnamed/part_000.  The variable `variant` says    *)
(* which of the two is running.                                            *)
(*                                                                         *)
(* Header values are integers: Absent (the header is not there; JS         *)
(* undefined or null), 0 (the empty string) and 1..n (distinct non-empty   *)
(* strings).  JavaScript's truthiness test on such a value is Truthy.      *)
(***************************************************************************)
EXTENDS Integers, Sequences, FiniteSets, TLC

\* ---------------------------------------------------------------- bounds
\* Distinct non-empty Cart-Token values clients send (client A sends 1, B 2).
NumTokens == 2
\* Distinct non-empty nonce values the upstream issues.
NumNonces == 2
\* Distinct non-empty woocommerce-session values the upstream returns.
NumSessions == 1

VARIABLES
    variant,              \* "server_js" or "part_000": the program that runs
    wooApiNonce,          \* the process-global nonce slot
    req,                  \* the handler invocations in flight, by slot
    apiKey,               \* whether EXCHANGE_RATE_API_KEY is configured
    cachedExchangeRates,  \* the rate cache
    lastFetchTime,        \* the rate cache's timestamp
    now,                  \* Date.now()
    rq                    \* the fetchExchangeRates calls in flight, by slot

vars == <<variant, wooApiNonce, req, apiKey, cachedExchangeRates, lastFetchTime, now, rq>>
cartVars == <<variant, wooApiNonce, req>>
rateVars == <<apiKey, cachedExchangeRates, lastFetchTime, now, rq>>

\* ------------------------------------------------------------ JS values
Absent == -1
Truthy(v) == v > 0

\* a || b on header values
OrElse(a, b) == IF Truthy(a) THEN a ELSE b

Variants == {"server_js", "part_000"}
CartEndpoints == {"init", "cart", "add", "update-item", "remove-item"}
MutatingEndpoints == {"add", "update-item", "remove-item"}
UpstreamEndpoints == CartEndpoints \cup {"products"}

\* req.headers['cart-token'] as a client may send it
ClientTokens == {Absent, 0} \cup (1..NumTokens)
\* response.headers.get('woocommerce-session') / ('nonce') as the upstream may send them
SessionValues == {Absent, 0} \cup (1..NumSessions)
NonceValues == {Absent, 0} \cup (1..NumNonces)
Statuses == {200, 204, 404}

\* response.ok
Ok(status) == status >= 200 /\ status < 300

\* What response.json() yields: a parse failure, or an object whose message
\* field is absent or a non-empty text.  A 204 response has no body, so its
\* parse fails.
Parsed(msg) == [state |-> "parsed", message |-> msg]
InvalidJson == [state |-> "invalid", message |-> "absent"]
Unread == [state |-> "unread", message |-> "absent"]
BodiesOf(status) ==
    IF status = 204 THEN {InvalidJson}
    ELSE {InvalidJson, Parsed("absent"), Parsed("upstream_msg")}

\* The upstream's response as fetch() resolves it: status and headers.
Responses(S, Ss, Ns) == [status : S, session : Ss, nonce : Ns]
NoResponse == [status |-> 0, session |-> Absent, nonce |-> Absent]

NoHeaders == [CartToken |-> Absent, Nonce |-> Absent]
NoBody == [kind |-> "none", message |-> "absent", details |-> "absent", cartToken |-> Absent]
NoRes == [sent |-> 0, status |-> 0, CartToken |-> Absent, body |-> NoBody]

IdleReq ==
    [pc |-> "idle", endpoint |-> "none", clientCartToken |-> Absent,
     headers |-> NoHeaders, calls |-> 0, response |-> NoResponse, data |-> Unread,
     res |-> NoRes]

\* ----------------------------------------------------- handler fragments

\* BuildHeaders with update-item forgetting the client's Cart-Token.
BuildHeaders_UpdateDropsToken(e, token, slot) ==
    [CartToken |-> IF e \notin {"products", "update-item"} /\ Truthy(token) THEN token ELSE Absent,
     Nonce     |-> IF e \in MutatingEndpoints /\ Truthy(slot) THEN slot ELSE Absent]

\* BuildHeaders with the Nonce header added in every handler.
BuildHeaders_NonceEverywhere(e, token, slot) ==
    [CartToken |-> IF e # "products" /\ Truthy(token) THEN token ELSE Absent,
     Nonce     |-> IF Truthy(slot) THEN slot ELSE Absent]

\* BuildHeaders with the nonce scoped to the client: sent only to the
\* session it was issued to.
BuildHeaders_ScopedNonce(e, token, slot) ==
    [CartToken |-> IF e # "products" /\ Truthy(token) THEN token ELSE Absent,
     Nonce     |-> IF e \in MutatingEndpoints /\ Truthy(slot)
                      /\ ((slot - 1) % NumTokens) + 1 = token
                   THEN slot ELSE Absent]

\* The headers object a handler builds before its fetch: Cart-Token when the
\* client's is truthy; Nonce, in the three mutating handlers, when the slot is.
BuildHeaders(e, token, slot) ==
    [CartToken |-> IF e # "products" /\ Truthy(token) THEN token ELSE Absent,
     Nonce     |-> IF e \in MutatingEndpoints /\ Truthy(slot) THEN slot ELSE Absent]

\* SetCartTokenHeader with remove-item never setting the response header.
SetCartTokenHeader_NotInRemove(e, res, session) ==
    IF e \notin {"products", "remove-item"} /\ Truthy(session)
    THEN [res EXCEPT !.CartToken = session] ELSE res

\* if (newWooSessionToken) res.setHeader('Cart-Token', newWooSessionToken)
SetCartTokenHeader(e, res, session) ==
    IF e # "products" /\ Truthy(session) THEN [res EXCEPT !.CartToken = session] ELSE res

\* CaptureNonce with every cart handler storing the nonce it is handed.
CaptureNonce_EveryHandler(e, slot, nonce) ==
    IF e # "products" /\ Truthy(nonce) THEN nonce ELSE slot

\* CaptureNonce with init storing whatever the header lookup returned, null
\* included.
CaptureNonce_Unconditional(e, slot, nonce) ==
    IF e = "init" THEN nonce ELSE slot

\* if (nonceFromHeader) wooApiNonce = nonceFromHeader   (GET /api/init only)
CaptureNonce(e, slot, nonce) ==
    IF e = "init" /\ Truthy(nonce) THEN nonce ELSE slot

\* res.status(s).json(b) / res.status(s).send()
Send(res, status, body) ==
    [res EXCEPT !.sent = @ + 1, !.status = status, !.body = body]

DefaultMessage(e) ==
    CASE e = "init" -> "Failed to initialize session from WooCommerce"
      [] e = "cart" -> "Failed to fetch cart"
      [] e = "add" -> "Failed to add to cart"
      [] e = "update-item" -> "Failed to update item quantity"
      [] e = "products" -> "Failed to fetch products"
      [] OTHER -> "absent"

\* data.message || '<default>'
MessageOr(data, default) ==
    IF data.message # "absent" THEN data.message ELSE default

\* The catch block of each handler: status 500 and a fixed text, with the
\* exception's message as details except in update-item.
CatchBody(e, errorMessage) ==
    CASE e = "init" ->
           [kind |-> "caught", message |-> "Failed to initialize session.",
            details |-> errorMessage, cartToken |-> Absent]
      [] e = "cart" ->
           [kind |-> "caught", message |-> "Failed to fetch cart.",
            details |-> errorMessage, cartToken |-> Absent]
      [] e = "products" ->
           [kind |-> "caught", message |-> "Failed to fetch products.",
            details |-> errorMessage, cartToken |-> Absent]
      [] e = "add" ->
           [kind |-> "caught", message |-> "Failed to add item to cart.",
            details |-> errorMessage, cartToken |-> Absent]
      [] e = "update-item" ->
           [kind |-> "caught", message |-> "Failed to update item quantity in cart.",
            details |-> "absent", cartToken |-> Absent]
      [] OTHER ->
           [kind |-> "caught", message |-> "Failed to remove item.",
            details |-> errorMessage, cartToken |-> Absent]

\* { message: data.message || '<default>', details: data }
WrappedError(e, data) ==
    [kind |-> "wrapped_error", message |-> MessageOr(data, DefaultMessage(e)),
     details |-> "data", cartToken |-> Absent]

\* res.json(data): the parsed upstream body relayed as it is
Relayed(data) ==
    [kind |-> "data", message |-> data.message, details |-> "absent", cartToken |-> Absent]

\* CartBody with the client's token taking precedence over the upstream's.
CartBody_ClientFirst(data, session, token) ==
    [kind |-> "cart", message |-> data.message, details |-> "absent",
     cartToken |-> OrElse(token, session)]

\* { cart: data, cartToken: newWooSessionToken || clientCartToken }
CartBody(data, session, token) ==
    [kind |-> "cart", message |-> data.message, details |-> "absent",
     cartToken |-> OrElse(session, token)]

EmptyObject == [kind |-> "empty_object", message |-> "absent", details |-> "absent", cartToken |-> Absent]

\* A handler whose promise rejected: nothing was sent and nothing will be.
Crashed(r) == [r EXCEPT !.pc = "crashed"]
Done(r, res) == [r EXCEPT !.pc = "done", !.res = res]

\* The catch block as the variant has it.  In part_000 the catch block of
\* remove-item calls showCartError, which is not defined: it throws, and the
\* handler ends without a response.
Catch(v, r, errorMessage) ==
    IF v = "part_000" /\ r.endpoint = "remove-item"
    THEN Crashed(r)
    ELSE Done(r, Send(r.res, 500, CatchBody(r.endpoint, errorMessage)))

\* init and cart, after response.json()
AfterJsonCart(v, r, data) ==
    IF data.state = "invalid" THEN Catch(v, r, "invalid_json")
    ELSE IF ~Ok(r.response.status)
         THEN Done(r, Send(r.res, r.response.status, WrappedError(r.endpoint, data)))
         ELSE Done(r, Send(r.res, 200,
                           CartBody(data, r.response.session, r.clientCartToken)))

\* products, after response.json(): a non-success status is thrown
AfterJsonProducts(v, r, data) ==
    IF data.state = "invalid" THEN Catch(v, r, "invalid_json")
    ELSE IF ~Ok(r.response.status)
         THEN Catch(v, r, MessageOr(data, DefaultMessage("products")))
         ELSE Done(r, Send(r.res, 200, Relayed(data)))

\* add and update-item, after response.json()
AfterJsonMutate(v, r, data) ==
    IF data.state = "invalid" THEN Catch(v, r, "invalid_json")
    ELSE IF ~Ok(r.response.status)
         THEN Done(r, Send(r.res, r.response.status, WrappedError(r.endpoint, data)))
         ELSE Done(r, Send(r.res, r.response.status, Relayed(data)))

\* AfterJsonRemove with every parse failure thrown to the catch block.
AfterJsonRemove_ThrowsOnInvalid(v, r, data) ==
    IF data.state = "invalid"
    THEN Catch(v, r, "invalid_json")
    ELSE IF v = "part_000" THEN Catch(v, r, "fetchAndDisplayCart is not defined")
    ELSE Done(r, Send(r.res, r.response.status, Relayed(data)))

\* remove-item, after the try around response.json() (status is not 204).
\* server.js relays the status with the data, or with {} when a success
\* body does not parse.  part_000 goes on to call fetchAndDisplayCart, which
\* is not defined, and lands in its broken catch block.
AfterJsonRemove(v, r, data) ==
    IF data.state = "invalid" /\ ~Ok(r.response.status)
    THEN Catch(v, r, "Store API remove failed with status")
    ELSE IF v = "part_000" THEN Catch(v, r, "fetchAndDisplayCart is not defined")
    ELSE IF data.state = "invalid"
         THEN Done(r, Send(r.res, r.response.status, EmptyObject))
         ELSE Done(r, Send(r.res, r.response.status, Relayed(data)))

AfterJson(v, r, data) ==
    CASE r.endpoint \in {"init", "cart"} -> AfterJsonCart(v, r, data)
      [] r.endpoint = "products" -> AfterJsonProducts(v, r, data)
      [] r.endpoint \in {"add", "update-item"} -> AfterJsonMutate(v, r, data)
      [] OTHER -> AfterJsonRemove(v, r, data)

\* Nonces are bound to sessions: nonce n belongs to the session whose token
\* is OwnerOf(n), and the upstream never hands one session's nonce to a
\* request that carries another session's token.
OwnerOf(n) == ((n - 1) % NumTokens) + 1
UpstreamNonces(token) ==
    IF Truthy(token) THEN {n \in NonceValues : ~Truthy(n) \/ OwnerOf(n) = token}
    ELSE NonceValues

\* ------------------------------------------------------------- actions

\* A request arrives: the handler reads the client's Cart-Token, builds the
\* upstream headers (reading the nonce slot) and issues its fetch.
Start(i, e, token) ==
    /\ req[i].pc = "idle"
    /\ req' = [req EXCEPT ![i] =
                 [IdleReq EXCEPT !.pc = "fetch", !.endpoint = e,
                                 !.clientCartToken = IF e = "products" THEN Absent ELSE token,
                                 !.headers = BuildHeaders(e, token, wooApiNonce),
                                 !.calls = 1]]
    /\ UNCHANGED <<variant, wooApiNonce, rateVars>>

\* FetchFails with one retry: the first transport failure re-issues the fetch.
FetchFails_Retry(i) ==
    /\ req[i].pc = "fetch"
    /\ req' = [req EXCEPT ![i] =
                 IF req[i].calls < 2 THEN [req[i] EXCEPT !.calls = @ + 1]
                 ELSE Catch(variant, req[i], "network_error")]
    /\ UNCHANGED <<variant, wooApiNonce, rateVars>>

\* The fetch rejects (a transport failure): the catch block runs.
FetchFails(i) ==
    /\ req[i].pc = "fetch"
    /\ req' = [req EXCEPT ![i] = Catch(variant, req[i], "network_error")]
    /\ UNCHANGED <<variant, wooApiNonce, rateVars>>

\* FetchReturns with init's nonce capture moved behind the status test: a
\* non-success response leaves the slot alone.
FetchReturns_CaptureOnSuccess(i, up) ==
    /\ req[i].pc = "fetch"
    /\ up.nonce \in UpstreamNonces(req[i].clientCartToken)
    /\ LET r == [req[i] EXCEPT !.response = up,
                               !.res = SetCartTokenHeader(req[i].endpoint, req[i].res, up.session)]
       IN  /\ wooApiNonce' = IF Ok(up.status)
                              THEN CaptureNonce(r.endpoint, wooApiNonce, up.nonce)
                              ELSE wooApiNonce
           /\ req' = [req EXCEPT ![i] =
                        IF r.endpoint = "remove-item" /\ up.status = 204
                        THEN Done(r, Send(r.res, 204, NoBody))
                        ELSE [r EXCEPT !.pc = "json"]]
    /\ UNCHANGED <<variant, rateVars>>

\* The fetch resolves with the upstream's status and headers: the handler
\* sets the Cart-Token response header, init captures the nonce, and the
\* handler awaits response.json() (remove-item answers a 204 at once).
FetchReturns(i, up) ==
    /\ req[i].pc = "fetch"
    /\ up.nonce \in UpstreamNonces(req[i].clientCartToken)
    /\ LET r == [req[i] EXCEPT !.response = up,
                               !.res = SetCartTokenHeader(req[i].endpoint, req[i].res, up.session)]
       IN  /\ wooApiNonce' = CaptureNonce(r.endpoint, wooApiNonce, up.nonce)
           /\ req' = [req EXCEPT ![i] =
                        IF r.endpoint = "remove-item" /\ up.status = 204
                        THEN Done(r, Send(r.res, 204, NoBody))
                        ELSE [r EXCEPT !.pc = "json"]]
    /\ UNCHANGED <<variant, rateVars>>

\* response.json() settles: the handler answers.
JsonReturns(i, data) ==
    /\ req[i].pc = "json"
    /\ data \in BodiesOf(req[i].response.status)
    /\ req' = [req EXCEPT ![i] = AfterJson(variant, [req[i] EXCEPT !.data = data], data)]
    /\ UNCHANGED <<variant, wooApiNonce, rateVars>>

\* The exchange is over (answered, or abandoned after the handler crashed):
\* the slot takes the next request.
Close(i) ==
    /\ req[i].pc \in {"done", "crashed"}
    /\ req' = [req EXCEPT ![i] = IdleReq]
    /\ UNCHANGED <<variant, wooApiNonce, rateVars>>

\* ------------------------------------------------ the exchange-rate cache
CACHE_DURATION == 3600 * 1000
\* Date.now() when the process starts: any instant later than CACHE_DURATION
\* after the epoch (lastFetchTime = 0 is then never "fresh").
StartTime == 100 * CACHE_DURATION
\* How many times the clock is seen to advance.
MaxTicks == 3
\* Distinct ZAR rates the rate service quotes: 18, 19, ...
NumRates == 2

Pair(usd, zar) == [isNull |-> FALSE, USD |-> usd, ZAR |-> zar]
NullRates == [isNull |-> TRUE, USD |-> Absent, ZAR |-> Absent]
\* { USD: 1, ZAR: 19.00 }
FallbackRates == Pair(1, 19)
ZarRates == {17 + k : k \in 1..NumRates}

\* What the rate service's body parses to: a parse failure, or an object
\* with a result field and, possibly, conversion_rates.
RateUnread == [state |-> "unread", result |-> "absent", conversion_rates |-> NullRates]
RateInvalid == [state |-> "invalid", result |-> "absent", conversion_rates |-> NullRates]
RateData(result, rates) == [state |-> "parsed", result |-> result, conversion_rates |-> rates]
RateBodies ==
    {RateInvalid}
    \cup {RateData(res, NullRates) : res \in {"success", "error"}}
    \cup {RateData(res, Pair(1, z)) : res \in {"success", "error"}, z \in ZarRates}

IdleRate ==
    [pc |-> "idle", caller |-> "none", calls |-> 0, ok |-> FALSE,
     data |-> RateUnread, result |-> NullRates, sent |-> 0]

\* fetchExchangeRates returns `rates` to its caller: the /api/exchange-rates
\* handler answers res.json(rates); the startup call in app.listen only logs.
Return(q, rates) ==
    [q EXCEPT !.pc = "done", !.result = rates,
              !.sent = IF q.caller = "request" THEN @ + 1 ELSE @]

\* CacheFresh with the window taken in seconds.
CacheFresh_Seconds(t, last, cached) ==
    t - last < 3600 /\ ~cached.isNull

\* Date.now() - lastFetchTime < CACHE_DURATION && cachedExchangeRates
CacheFresh(t, last, cached) ==
    t - last < CACHE_DURATION /\ ~cached.isNull

\* EnterFetchExchangeRates without the test of the key: part_000 fetches
\* whenever the cache is not fresh.
EnterFetchExchangeRates_NoKeyTest(v, q, t, last, cached, key) ==
    IF v = "server_js" THEN Return(q, cached)
    ELSE IF CacheFresh(t, last, cached) THEN Return(q, cached)
    ELSE [q EXCEPT !.pc = "fetch", !.calls = @ + 1]

\* The synchronous head of fetchExchangeRates.  server.js returns its
\* hardcoded pair; part_000 serves the cache, or the fallback without a key,
\* or issues the fetch.
EnterFetchExchangeRates(v, q, t, last, cached, key) ==
    IF v = "server_js" THEN Return(q, cached)
    ELSE IF CacheFresh(t, last, cached) THEN Return(q, cached)
    ELSE IF ~key THEN Return(q, FallbackRates)
    ELSE [q EXCEPT !.pc = "fetch", !.calls = @ + 1]

\* FetchSucceeded without the test of response.ok.
FetchSucceeded_IgnoresStatus(ok, data) ==
    data.state = "parsed" /\ data.result = "success" /\ ~data.conversion_rates.isNull

\* response.ok && data.result === 'success' && data.conversion_rates
FetchSucceeded(ok, data) ==
    ok /\ data.state = "parsed" /\ data.result = "success" /\ ~data.conversion_rates.isNull

\* FetchedPair with the two rates swapped.
FetchedPair_Swapped(data) == Pair(data.conversion_rates.ZAR, data.conversion_rates.USD)

\* { USD: data.conversion_rates.USD, ZAR: data.conversion_rates.ZAR }
FetchedPair(data) == Pair(data.conversion_rates.USD, data.conversion_rates.ZAR)

\* GET /api/exchange-rates arrives and calls fetchExchangeRates.
RateStart(i) ==
    /\ rq[i].pc = "idle"
    /\ rq' = [rq EXCEPT ![i] =
                EnterFetchExchangeRates(variant, [IdleRate EXCEPT !.caller = "request"],
                                        now, lastFetchTime, cachedExchangeRates, apiKey)]
    /\ UNCHANGED <<cartVars, apiKey, cachedExchangeRates, lastFetchTime, now>>

\* RateFetchFails with the stale cached pair served when there is one.
RateFetchFails_ServesStale(i) ==
    /\ rq[i].pc = "fetch"
    /\ rq' = [rq EXCEPT ![i] =
                Return(rq[i], IF cachedExchangeRates.isNull THEN FallbackRates
                              ELSE cachedExchangeRates)]
    /\ UNCHANGED <<cartVars, apiKey, cachedExchangeRates, lastFetchTime, now>>

\* The fetch of the rate service rejects: the fallback is returned.
RateFetchFails(i) ==
    /\ rq[i].pc = "fetch"
    /\ rq' = [rq EXCEPT ![i] = Return(rq[i], FallbackRates)]
    /\ UNCHANGED <<cartVars, apiKey, cachedExchangeRates, lastFetchTime, now>>

\* The fetch resolves; the call awaits response.json().
RateFetchReturns(i, ok) ==
    /\ rq[i].pc = "fetch"
    /\ rq' = [rq EXCEPT ![i] = [rq[i] EXCEPT !.pc = "json", !.ok = ok]]
    /\ UNCHANGED <<cartVars, apiKey, cachedExchangeRates, lastFetchTime, now>>

\* RateJsonReturns with the pair cached and the timestamp left as it was.
RateJsonReturns_KeepsStamp(i, data) ==
    /\ rq[i].pc = "json"
    /\ LET q == [rq[i] EXCEPT !.data = data]
       IN  IF FetchSucceeded(q.ok, data)
           THEN /\ cachedExchangeRates' = FetchedPair(data)
                /\ rq' = [rq EXCEPT ![i] = Return(q, FetchedPair(data))]
                /\ UNCHANGED lastFetchTime
           ELSE /\ rq' = [rq EXCEPT ![i] = Return(q, FallbackRates)]
                /\ UNCHANGED <<cachedExchangeRates, lastFetchTime>>
    /\ UNCHANGED <<cartVars, apiKey, now>>

\* response.json() settles: a good answer is cached with the time of this
\* moment and returned; anything else yields the fallback.
RateJsonReturns(i, data) ==
    /\ rq[i].pc = "json"
    /\ LET q == [rq[i] EXCEPT !.data = data]
       IN  IF FetchSucceeded(q.ok, data)
           THEN /\ cachedExchangeRates' = FetchedPair(data)
                /\ lastFetchTime' = now
                /\ rq' = [rq EXCEPT ![i] = Return(q, FetchedPair(data))]
           ELSE /\ rq' = [rq EXCEPT ![i] = Return(q, FallbackRates)]
                /\ UNCHANGED <<cachedExchangeRates, lastFetchTime>>
    /\ UNCHANGED <<cartVars, apiKey, now>>

RateClose(i) ==
    /\ rq[i].pc = "done"
    /\ rq' = [rq EXCEPT ![i] = IdleRate]
    /\ UNCHANGED <<cartVars, apiKey, cachedExchangeRates, lastFetchTime, now>>

\* The ticks the clock has made since the start, read off `now`.
Ticks(t) == ((t - StartTime) \div (CACHE_DURATION - 1)) + ((t - StartTime) % (CACHE_DURATION - 1))

\* Time passes: a millisecond, or a millisecond less than the cache window.
Tick(d) ==
    /\ Ticks(now) < MaxTicks
    /\ now' = now + d
    /\ UNCHANGED <<cartVars, apiKey, cachedExchangeRates, lastFetchTime, rq>>

\* ------------------------------------------------------- specifications
RelaySlots == {1}
RaceSlots == {1, 2}
RateSlots == {1, 2}

\* The rate cache as the module's top level leaves it.  server.js starts
\* with the hardcoded pair and the load time.  part_000 starts empty and
\* app.listen's callback calls fetchExchangeRates once (slot 1).
InitRates(keys) ==
    /\ apiKey \in keys
    /\ now = StartTime
    /\ cachedExchangeRates = IF variant = "server_js" THEN FallbackRates ELSE NullRates
    /\ lastFetchTime = IF variant = "server_js" THEN StartTime ELSE 0
    /\ rq = [i \in RateSlots |->
               IF i = 1 /\ variant = "part_000" /\ apiKey
               THEN EnterFetchExchangeRates(variant, [IdleRate EXCEPT !.caller = "listen"],
                                            StartTime, 0, NullRates, apiKey)
               ELSE IdleRate]

InitCart(slots) ==
    /\ variant \in Variants
    /\ wooApiNonce = Absent
    /\ req = [i \in slots |-> IdleReq]

\* The relay, one request at a time, with every kind of header and body.
Init == InitCart(RelaySlots) /\ InitRates({FALSE})
Next ==
    \/ \E i \in RelaySlots, e \in UpstreamEndpoints, t \in ClientTokens : Start(i, e, t)
    \/ \E i \in RelaySlots : FetchFails(i)
    \/ \E i \in RelaySlots, up \in Responses(Statuses, SessionValues, NonceValues) :
          FetchReturns(i, up)
    \/ \E i \in RelaySlots, d \in BodiesOf(200) : JsonReturns(i, d)
    \/ \E i \in RelaySlots : Close(i)
Spec == Init /\ [][Next]_vars

\* Two requests in flight at once, from clients that hold a token; the
\* upstream answers with a JSON body and no session header.
RaceBodies == {Parsed("upstream_msg")}
InitRace == InitCart(RaceSlots) /\ InitRates({FALSE})
NextRace ==
    \/ \E i \in RaceSlots, e \in UpstreamEndpoints, t \in 1..NumTokens : Start(i, e, t)
    \/ \E i \in RaceSlots : FetchFails(i)
    \/ \E i \in RaceSlots, up \in Responses({200, 404}, {Absent}, NonceValues) :
          FetchReturns(i, up)
    \/ \E i \in RaceSlots, d \in RaceBodies : JsonReturns(i, d)
    \/ \E i \in RaceSlots : Close(i)
SpecRace == InitRace /\ [][NextRace]_vars

\* The exchange-rate cache under concurrent calls and a moving clock.
InitRate == InitCart(RelaySlots) /\ InitRates(BOOLEAN)
NextRate ==
    \/ \E i \in RateSlots : RateStart(i)
    \/ \E i \in RateSlots : RateFetchFails(i)
    \/ \E i \in RateSlots, ok \in BOOLEAN : RateFetchReturns(i, ok)
    \/ \E i \in RateSlots, d \in RateBodies : RateJsonReturns(i, d)
    \/ \E i \in RateSlots : RateClose(i)
    \/ \E d \in {1, CACHE_DURATION - 1} : Tick(d)
SpecRates == InitRate /\ [][NextRate]_vars

\* Every endpoint of the listener side by side: one cart or product request
\* and the exchange-rate calls, with the coarse upstream answers of SpecRace.
InitAll == InitCart(RelaySlots) /\ InitRates(BOOLEAN)
NextAll ==
    \/ \E i \in RelaySlots, e \in UpstreamEndpoints, t \in 1..NumTokens : Start(i, e, t)
    \/ \E i \in RelaySlots : FetchFails(i)
    \/ \E i \in RelaySlots, up \in Responses({200, 404}, {Absent}, NonceValues) :
          FetchReturns(i, up)
    \/ \E i \in RelaySlots, d \in RaceBodies : JsonReturns(i, d)
    \/ \E i \in RelaySlots : Close(i)
    \/ \E i \in RateSlots : RateStart(i)
    \/ \E i \in RateSlots : RateFetchFails(i)
    \/ \E i \in RateSlots, ok \in BOOLEAN : RateFetchReturns(i, ok)
    \/ \E i \in RateSlots, d \in RateBodies : RateJsonReturns(i, d)
    \/ \E i \in RateSlots : RateClose(i)
SpecAll == InitAll /\ [][NextAll]_vars

\* ------------------------------------------------------------ the claims

\* A step in which slot i's handler starts, and one in which its fetch
\* resolves with a response.
Starts(i) == req[i].pc = "idle" /\ req'[i].pc = "fetch"
Arrives(i) == req[i].pc = "fetch" /\ req'[i].pc # "fetch" /\ req'[i].response # NoResponse
\* The handler of slot i has ended, with a response or without.
Ended(r) == r.pc \in {"done", "crashed"}

\* C1: every request to one of the five cart handlers issues one upstream
\* request, whose Cart-Token header is the client's own token when the client
\* supplied one (a non-empty Cart-Token header: the handlers test it for
\* truthiness) and is not there when the client supplied none.
C1_ForwardsClientToken ==
    \A i \in DOMAIN req :
        (req[i].pc # "idle" /\ req[i].endpoint \in CartEndpoints) =>
            /\ req[i].calls = 1
            /\ Truthy(req[i].clientCartToken) => req[i].headers.CartToken = req[i].clientCartToken
            /\ ~Truthy(req[i].clientCartToken) => req[i].headers.CartToken = Absent

\* C1's case: an update-item request of client B is in flight carrying B's
\* token, next to the nonce of client A's session.
C1_Witness ==
    \E i \in DOMAIN req :
        /\ req[i].pc = "fetch" /\ req[i].endpoint = "update-item"
        /\ req[i].clientCartToken = 2 /\ req[i].headers.CartToken = 2
        /\ req[i].headers.Nonce = 1

\* C2: the response a cart handler sends carries a Cart-Token header equal to
\* the upstream's session token when the upstream sent one (non-empty),
\* whatever the upstream's status, and no Cart-Token header when it sent none.
C2_RelaysSessionToken ==
    \A i \in DOMAIN req :
        (req[i].pc = "done" /\ req[i].endpoint \in CartEndpoints) =>
            /\ req[i].res.sent = 1
            /\ Truthy(req[i].response.session) => req[i].res.CartToken = req[i].response.session
            /\ ~Truthy(req[i].response.session) => req[i].res.CartToken = Absent

\* C2's case: a remove-item answered with the upstream's 404 and its session
\* token in the Cart-Token header.
C2_Witness ==
    \E i \in DOMAIN req :
        /\ req[i].pc = "done" /\ req[i].endpoint = "remove-item"
        /\ req[i].response.status = 404 /\ req[i].res.status = 404
        /\ Truthy(req[i].response.session)
        /\ req[i].res.CartToken = req[i].response.session

\* C3 as stated: when any of the five cart handlers has completed, the slot
\* equals the nonce its upstream response carried.
C3_EveryHandlerStoresNonce ==
    \A i \in DOMAIN req :
        (Ended(req[i]) /\ req[i].endpoint \in CartEndpoints /\ Truthy(req[i].response.nonce)) =>
            wooApiNonce = req[i].response.nonce

\* C3, amended: the slot is written by GET /api/init alone.  When the
\* response to an init arrives with a non-empty nonce the slot equals that
\* nonce at that moment; the arrival of any other response leaves the slot as
\* it was, and no other step changes it.
C3_InitStoresNonce ==
    [][ /\ \A i \in DOMAIN req :
             Arrives(i) =>
                IF req'[i].endpoint = "init" /\ Truthy(req'[i].response.nonce)
                THEN wooApiNonce' = req'[i].response.nonce
                ELSE wooApiNonce' = wooApiNonce
        /\ wooApiNonce' # wooApiNonce => \E i \in DOMAIN req : Arrives(i)
      ]_vars

\* C3's case: an init still reading its body after its response overwrote a
\* nonce the slot held before.
C3_Witness ==
    \E i, j \in DOMAIN req :
        /\ req[i].pc = "json" /\ req[i].endpoint = "init"
        /\ Truthy(req[i].response.nonce) /\ wooApiNonce = req[i].response.nonce
        /\ req[j].pc = "fetch" /\ req[j].endpoint = "add"
        /\ Truthy(req[j].headers.Nonce) /\ req[j].headers.Nonce # wooApiNonce

\* C4: a mutating handler reads the slot once, as it builds its headers: the
\* Nonce header it sends is the slot's value at that moment, or is not there
\* when the slot is null; what it sent does not change while it is in
\* flight; init, cart and products send no Nonce header.
C4_NonceReadAtBuild ==
    [][ \A i \in DOMAIN req :
          /\ Starts(i) =>
                req'[i].headers.Nonce =
                    IF req'[i].endpoint \in MutatingEndpoints /\ wooApiNonce # Absent
                    THEN wooApiNonce ELSE Absent
          /\ (req[i].pc # "idle" /\ req'[i].pc # "idle") => req'[i].headers = req[i].headers
      ]_vars

\* C4's case: a mutating call in flight that sent no Nonce header (the slot
\* was null), while an init that completed meanwhile has filled the slot.
C4_Witness ==
    \E i, j \in DOMAIN req :
        /\ req[i].pc = "fetch" /\ req[i].endpoint \in MutatingEndpoints
        /\ req[i].headers.Nonce = Absent
        /\ req[j].pc = "done" /\ req[j].endpoint = "init"
        /\ Truthy(wooApiNonce) /\ req[j].response.nonce = wooApiNonce

\* C5: the slot is not scoped to a client.  A mutating request that starts
\* while the slot holds a nonce issued to another client's session is sent
\* with that nonce.
C5_SendsForeignNonce ==
    [][ \A i \in DOMAIN req :
          (Starts(i) /\ req'[i].endpoint \in MutatingEndpoints
             /\ Truthy(wooApiNonce) /\ OwnerOf(wooApiNonce) # req'[i].clientCartToken) =>
                req'[i].headers.Nonce = wooApiNonce
      ]_vars

\* C5's case: client B's init has been issued B's nonce, and B's add is in
\* flight carrying the nonce of client A's session instead.
C5_Witness ==
    \E i, j \in DOMAIN req :
        /\ req[i].endpoint = "init" /\ req[i].clientCartToken = 2
        /\ req[i].pc = "json" /\ Truthy(req[i].response.nonce)
        /\ OwnerOf(req[i].response.nonce) = 2
        /\ req[j].endpoint = "add" /\ req[j].clientCartToken = 2 /\ req[j].pc = "fetch"
        /\ Truthy(req[j].headers.Nonce) /\ OwnerOf(req[j].headers.Nonce) = 1

\* C6 as stated: when the upstream answers a call of any of the six upstream
\* endpoints with a non-success status S and a JSON body, the response the
\* proxy sends has status S and a body that holds the upstream's payload.
C6_RelaysUpstreamError ==
    \A i \in DOMAIN req :
        (req[i].pc = "done" /\ req[i].response # NoResponse /\ ~Ok(req[i].response.status)
           /\ req[i].data.state = "parsed") =>
            /\ req[i].res.status = req[i].response.status
            /\ req[i].res.body.kind \in {"wrapped_error", "data"}

\* C7 as stated: after a transport failure of the outbound call, or a
\* failure to parse the upstream's body, the response the proxy sends has
\* status 500 and a body that holds the exception's message.
C7_FailureYields500 ==
    \A i \in DOMAIN req :
        (req[i].pc = "done" /\ (req[i].response = NoResponse \/ req[i].data.state = "invalid")) =>
            /\ req[i].res.status = 500
            /\ req[i].res.body.kind = "caught"
            /\ req[i].res.body.details # "absent"

\* C8 as stated: a handler that has ended has sent exactly one response.
C8_ExactlyOneResponse ==
    /\ \A i \in DOMAIN req : Ended(req[i]) => req[i].res.sent = 1
    /\ \A i \in DOMAIN rq : (rq[i].pc = "done" /\ rq[i].caller = "request") => rq[i].sent = 1

\* A step in which slot i's call of fetchExchangeRates begins.
RateStarts(i) == rq[i].pc = "idle" /\ rq'[i].pc # "idle"

\* C9: in part_000, a call made while a pair is cached and less than
\* CACHE_DURATION has passed since lastFetchTime returns the cached pair,
\* makes no call to the rate service and leaves the pair and lastFetchTime
\* as they were.
C9_ServesFreshCache ==
    [][ \A i \in DOMAIN rq :
          (variant = "part_000" /\ RateStarts(i)
             /\ ~cachedExchangeRates.isNull /\ now - lastFetchTime < CACHE_DURATION) =>
                /\ rq'[i].pc = "done" /\ rq'[i].calls = 0
                /\ rq'[i].result = cachedExchangeRates
                /\ rq'[i].sent = 1
                /\ cachedExchangeRates' = cachedExchangeRates
                /\ lastFetchTime' = lastFetchTime
      ]_vars

\* C9's case: two requests answered from the cache with the same pair, the
\* later one a millisecond before the window closes.
C9_Witness ==
    /\ variant = "part_000"
    /\ now - lastFetchTime = CACHE_DURATION - 1
    /\ \A i \in DOMAIN rq :
          /\ rq[i].pc = "done" /\ rq[i].caller = "request" /\ rq[i].calls = 0
          /\ rq[i].result = cachedExchangeRates /\ ~rq[i].result.isNull
          /\ rq[i].result # FallbackRates

\* C10 as stated: in both programs, with the key configured, a call made
\* when no pair is cached or the cached pair is at least CACHE_DURATION old
\* fetches from the rate service.
C10_FetchesWhenStale ==
    [][ \A i \in DOMAIN rq :
          (RateStarts(i) /\ apiKey
             /\ (cachedExchangeRates.isNull \/ now - lastFetchTime >= CACHE_DURATION)) =>
                rq'[i].pc = "fetch"
      ]_vars

\* C10, amended: in part_000 with the key configured such a call issues one
\* fetch, and when the service answers with success the fetched pair is
\* stored with the time of that moment and returned; in server.js a call
\* never fetches and returns the hardcoded pair.
C10_RefreshesInPart000 ==
    [][ \A i \in DOMAIN rq :
          /\ (variant = "part_000" /\ RateStarts(i) /\ apiKey
                /\ (cachedExchangeRates.isNull \/ now - lastFetchTime >= CACHE_DURATION)) =>
                   (rq'[i].pc = "fetch" /\ rq'[i].calls = 1)
          /\ (rq[i].pc = "json" /\ rq'[i].pc = "done" /\ rq'[i].ok
                /\ rq'[i].data.state = "parsed" /\ rq'[i].data.result = "success"
                /\ ~rq'[i].data.conversion_rates.isNull) =>
                   /\ cachedExchangeRates' =
                         [isNull |-> FALSE, USD |-> rq'[i].data.conversion_rates.USD,
                          ZAR |-> rq'[i].data.conversion_rates.ZAR]
                   /\ lastFetchTime' = now
                   /\ rq'[i].result = cachedExchangeRates'
          /\ (variant = "server_js" /\ RateStarts(i)) =>
                (rq'[i].pc = "done" /\ rq'[i].calls = 0 /\ rq'[i].result = FallbackRates)
      ]_vars

\* C10's case: a request answered from the cache, and a later one, made
\* after the window closed, answered with a newly fetched, different pair
\* that is now the cached one.
C10_Witness ==
    \E i, j \in DOMAIN rq :
        /\ variant = "part_000"
        /\ rq[i].pc = "done" /\ rq[i].calls = 0 /\ ~rq[i].result.isNull
        /\ rq[j].pc = "done" /\ rq[j].calls = 1 /\ rq[j].result = cachedExchangeRates
        /\ rq[j].result # rq[i].result
        /\ lastFetchTime = now /\ now >= StartTime + CACHE_DURATION


\* A step in which slot i's call of fetchExchangeRates comes back from the
\* rate service with success (status ok, result 'success', conversion_rates
\* there), and one in which it comes back in any other way.
RateSucceeds(i) ==
    /\ rq[i].pc = "json" /\ rq'[i].pc = "done"
    /\ rq'[i].ok /\ rq'[i].data.state = "parsed" /\ rq'[i].data.result = "success"
    /\ ~rq'[i].data.conversion_rates.isNull
RateFails(i) ==
    /\ rq[i].pc \in {"fetch", "json"} /\ rq'[i].pc = "done"
    /\ ~RateSucceeds(i)

\* C11: in part_000, a call whose fetch fails (the fetch or the parse
\* throws, the status is not a success, the result is not 'success', or
\* conversion_rates is missing) returns { USD: 1, ZAR: 19 }, and no step of
\* such a call writes the cached pair or lastFetchTime.
C11_FailureLeavesCache ==
    [][ \A i \in DOMAIN rq :
          /\ (variant = "part_000" /\ RateFails(i)) =>
                /\ rq'[i].result = [isNull |-> FALSE, USD |-> 1, ZAR |-> 19]
                /\ rq'[i].calls = 1
          /\ (rq'[i] # rq[i] /\ ~RateSucceeds(i)) =>
                /\ cachedExchangeRates' = cachedExchangeRates
                /\ lastFetchTime' = lastFetchTime
      ]_vars

\* C11's case: a pair fetched at the start is cached and has expired; the
\* refresh got a non-success status with an otherwise good body, the request
\* was answered with the fallback, and the cache is as it was.
C11_Witness ==
    \E i \in DOMAIN rq :
        /\ variant = "part_000"
        /\ rq[i].pc = "done" /\ rq[i].caller = "request" /\ rq[i].calls = 1
        /\ ~rq[i].ok /\ rq[i].data = RateData("success", Pair(1, 18))
        /\ rq[i].result = FallbackRates
        /\ cachedExchangeRates = Pair(1, 18) /\ lastFetchTime = StartTime
        /\ now >= StartTime + CACHE_DURATION

\* C12: without the rate-API key, every answer to GET /api/exchange-rates is
\* { USD: 1, ZAR: 19 }, no call to the rate service is made or in flight, and
\* the cache is never written: part_000's stays null with lastFetchTime 0
\* (server.js keeps the hardcoded pair it was loaded with).
C12_NoKeyAlwaysFallback ==
    ~apiKey =>
        /\ \A i \in DOMAIN rq :
              /\ rq[i].calls = 0 /\ rq[i].pc \in {"idle", "done"}
              /\ rq[i].pc = "done" =>
                    (rq[i].result = [isNull |-> FALSE, USD |-> 1, ZAR |-> 19] /\ rq[i].sent = 1)
        /\ variant = "part_000" => (cachedExchangeRates.isNull /\ lastFetchTime = 0)
        /\ variant = "server_js" =>
              (cachedExchangeRates = [isNull |-> FALSE, USD |-> 1, ZAR |-> 19]
                 /\ lastFetchTime = StartTime)

\* C12's case: part_000 without the key, more than the cache window after
\* the start, with two requests answered and the cache still empty.
C12_Witness ==
    /\ variant = "part_000" /\ ~apiKey
    /\ now > StartTime + CACHE_DURATION
    /\ \A i \in DOMAIN rq :
          rq[i].pc = "done" /\ rq[i].caller = "request" /\ rq[i].result = FallbackRates
    /\ cachedExchangeRates.isNull

\* C13: init and cart answer an upstream success whose body parses with
\* status 200 and { cart, cartToken }, whether or not the client sent a
\* Cart-Token; cartToken is the upstream's session token when it sent one
\* (non-empty), else the client's own token, else it is not there; and the
\* Cart-Token response header is the upstream's session token.
C13_FreshTokenReturned ==
    \A i \in DOMAIN req :
        (req[i].pc = "done" /\ req[i].endpoint \in {"init", "cart"}
           /\ Ok(req[i].response.status) /\ req[i].data.state = "parsed") =>
            /\ req[i].res.sent = 1 /\ req[i].res.status = 200
            /\ req[i].res.body.kind = "cart"
            /\ req[i].res.body.message = req[i].data.message
            /\ req[i].res.body.cartToken =
                  IF req[i].response.session > 0 THEN req[i].response.session
                  ELSE req[i].clientCartToken
            /\ req[i].response.session > 0 => req[i].res.CartToken = req[i].response.session

\* C13's case: an init without a Cart-Token header, answered 200 with the
\* token the upstream issued in the header and in the body.
C13_Witness ==
    \E i \in DOMAIN req :
        /\ req[i].pc = "done" /\ req[i].endpoint = "init"
        /\ req[i].clientCartToken = Absent /\ req[i].headers.CartToken = Absent
        /\ req[i].response.status = 200 /\ req[i].response.session = 1
        /\ req[i].res.status = 200 /\ req[i].res.CartToken = 1
        /\ req[i].res.body.cartToken = 1

\* C14: a request to a cart or product endpoint issues one upstream call,
\* when the handler starts, and no further one whatever comes back; a
\* GET /api/exchange-rates request issues at most one call to the rate
\* service.
C14_OneOutboundCall ==
    [][ /\ \A i \in DOMAIN req :
             /\ Starts(i) => req'[i].calls = 1
             /\ (req[i].pc # "idle" /\ req'[i].pc # "idle") => req'[i].calls = req[i].calls
             /\ Ended(req'[i]) => req'[i].calls = 1
        /\ \A i \in DOMAIN rq :
             /\ rq'[i].calls <= 1
             /\ (rq[i].pc # "idle" /\ rq'[i].pc # "idle") => rq'[i].calls = rq[i].calls
      ]_vars

\* C14's case: an add whose upstream call failed in transport has been
\* answered 500 after its one call, next to an exchange-rate request
\* answered with the fallback after its one failed call.
C14_Witness ==
    \E i \in DOMAIN req, j \in DOMAIN rq :
        /\ req[i].pc = "done" /\ req[i].endpoint = "add"
        /\ req[i].response = NoResponse /\ req[i].res.status = 500 /\ req[i].calls = 1
        /\ rq[j].pc = "done" /\ rq[j].caller = "request" /\ rq[j].calls = 1
        /\ rq[j].data = RateUnread /\ rq[j].result = FallbackRates


\* C15: in server.js, remove-item answers an upstream 204 with status 204
\* and no body, without reading the upstream's body, and with the Cart-Token
\* header when the upstream sent a session token; it answers a success status
\* other than 204 whose body does not parse with that status and {}.
C15_RemoveItemNoContent ==
    \A i \in DOMAIN req :
        (variant = "server_js" /\ req[i].endpoint = "remove-item" /\ req[i].pc = "done"
           /\ req[i].response # NoResponse) =>
            /\ req[i].response.status = 204 =>
                  /\ req[i].res.sent = 1 /\ req[i].res.status = 204
                  /\ req[i].res.body.kind = "none"
                  /\ req[i].data.state = "unread"
                  /\ req[i].response.session > 0 =>
                        req[i].res.CartToken = req[i].response.session
            /\ (Ok(req[i].response.status) /\ req[i].response.status # 204
                  /\ req[i].data.state = "invalid") =>
                  /\ req[i].res.sent = 1 /\ req[i].res.status = req[i].response.status
                  /\ req[i].res.body.kind = "empty_object"

\* C15's case: server.js answered a remove-item with the upstream's 200 and
\* {} after the upstream's body failed to parse, the session token attached.
C15_Witness ==
    \E i \in DOMAIN req :
        /\ variant = "server_js" /\ req[i].endpoint = "remove-item" /\ req[i].pc = "done"
        /\ req[i].response.status = 200 /\ req[i].data = InvalidJson
        /\ req[i].res.status = 200 /\ req[i].res.body = EmptyObject
        /\ req[i].response.session = 1 /\ req[i].res.CartToken = 1

\* C16: the nonce slot starts null and never holds an empty string; it
\* changes only in the step in which the response to an init arrives with a
\* non-empty nonce, and then holds that nonce; once non-null it stays
\* non-null; an init whose response carries no nonce leaves it as it was.
C16_SlotWrittenByInitOnly ==
    /\ wooApiNonce = Absent
    /\ [](wooApiNonce # 0)
    /\ [][ /\ wooApiNonce' # wooApiNonce =>
                \E i \in DOMAIN req :
                    /\ Arrives(i) /\ req'[i].endpoint = "init"
                    /\ req'[i].response.nonce > 0
                    /\ wooApiNonce' = req'[i].response.nonce
           /\ wooApiNonce # Absent => wooApiNonce' # Absent
           /\ \A i \in DOMAIN req :
                (Arrives(i) /\ req'[i].endpoint = "init" /\ ~(req'[i].response.nonce > 0)) =>
                    wooApiNonce' = wooApiNonce
         ]_vars

\* C16's case: an init whose response carried no nonce has been answered
\* with success, and the slot still holds the nonce of an earlier session.
C16_Witness ==
    \E i \in DOMAIN req :
        /\ req[i].pc = "done" /\ req[i].endpoint = "init"
        /\ req[i].response.status = 200 /\ req[i].response.nonce = Absent
        /\ req[i].clientCartToken = 2
        /\ wooApiNonce = 1

\* C17: init stores the nonce in the step in which the response arrives,
\* before the body is parsed, the status tested or anything answered, so
\* whatever the status; no later step of the handler undoes it.
C17_InitCapturesBeforeStatus ==
    [][ \A i \in DOMAIN req :
          /\ (Arrives(i) /\ req'[i].endpoint = "init" /\ req'[i].response.nonce > 0) =>
                /\ wooApiNonce' = req'[i].response.nonce
                /\ req'[i].pc = "json" /\ req'[i].res.sent = 0
          /\ (req[i].pc = "json" /\ req'[i].pc # "json") => wooApiNonce' = wooApiNonce
      ]_vars

\* C17's case: an init answered 404 on the upstream's 404 (its body parsed),
\* with the slot holding the nonce that response carried.
C17_Witness ==
    \E i \in DOMAIN req :
        /\ req[i].pc = "done" /\ req[i].endpoint = "init"
        /\ req[i].response.status = 404 /\ req[i].res.status = 404
        /\ req[i].response.nonce = 2 /\ wooApiNonce = 2

\* The cached pair has expired.
Expired == ~cachedExchangeRates.isNull /\ now - lastFetchTime >= CACHE_DURATION

\* C18: in part_000, while the cached pair is expired, every call issues a
\* fetch; a call whose fetch fails returns { USD: 1, ZAR: 19 } and leaves the
\* stale pair and its timestamp in place; and the pair stays expired until a
\* fetch succeeds.
C18_StaleNotServed ==
    [][ (variant = "part_000" /\ Expired) =>
          /\ \A i \in DOMAIN rq :
                /\ RateStarts(i) => (rq'[i].pc = "fetch" /\ rq'[i].calls = 1)
                /\ RateFails(i) =>
                      /\ rq'[i].result = [isNull |-> FALSE, USD |-> 1, ZAR |-> 19]
                      /\ cachedExchangeRates' = cachedExchangeRates
                      /\ lastFetchTime' = lastFetchTime
          /\ (~ \E i \in DOMAIN rq : RateSucceeds(i)) => Expired'
      ]_vars

\* C18's case: the expired pair {1, 18} is still cached, one request's
\* refresh failed and was answered with the fallback, and another call's
\* fetch is in flight.
C18_Witness ==
    \E i, j \in DOMAIN rq :
        /\ variant = "part_000" /\ Expired
        /\ cachedExchangeRates = Pair(1, 18)
        /\ rq[i].pc = "done" /\ rq[i].caller = "request" /\ rq[i].calls = 1
        /\ rq[i].result = FallbackRates
        /\ rq[j].pc = "fetch" /\ rq[j].calls = 1

\* C19: the cached pair is non-null exactly when lastFetchTime is non-zero;
\* the two change only together, in the one step in which a fetch succeeds,
\* to that fetch's pair and the time of that step; every fetch that succeeds
\* writes them, so the last to complete decides what is cached.
C19_CacheWrittenWhole ==
    /\ [](cachedExchangeRates.isNull <=> lastFetchTime = 0)
    /\ [][ /\ (cachedExchangeRates' # cachedExchangeRates \/ lastFetchTime' # lastFetchTime) =>
                \E i \in DOMAIN rq : RateSucceeds(i)
           /\ \A i \in DOMAIN rq :
                RateSucceeds(i) =>
                    /\ cachedExchangeRates' =
                          [isNull |-> FALSE, USD |-> rq'[i].data.conversion_rates.USD,
                           ZAR |-> rq'[i].data.conversion_rates.ZAR]
                    /\ lastFetchTime' = now
         ]_vars

\* C19's case: the startup call and a request both found the cache empty,
\* both fetched, both succeeded with different pairs; the cache holds one of
\* the two and the other call returned a pair that is no longer cached.
C19_Witness ==
    \E i, j \in DOMAIN rq :
        /\ variant = "part_000" /\ now = StartTime /\ lastFetchTime = StartTime
        /\ rq[i].pc = "done" /\ rq[i].caller = "listen" /\ rq[i].calls = 1
        /\ rq[j].pc = "done" /\ rq[j].caller = "request" /\ rq[j].calls = 1
        /\ ~rq[i].result.isNull /\ rq[i].result # FallbackRates
        /\ rq[j].result = Pair(1, 19) /\ rq[j].data.result = "success" /\ rq[j].ok
        /\ cachedExchangeRates = rq[i].result

=============================================================================
